---- MODULE Spec2Model ----
(***************************************************************************)
(* Numerical kernels of sasmodels: the magnetic helper library             *)
(* (models/lib/magnetic_functions.c) and the BCC paracrystal structure     *)
(* factor (_sq_bcc).                                                       *)
(*                                                                         *)
(* Arithmetic.  The C code computes in IEEE doubles.  The model computes   *)
(* the same expressions, in the same order, over exact numbers: a number   *)
(* is a tuple <<p, q, d, n>> that stands for (p + q*sqrt(n)) / d with      *)
(* d > 0, so that sqrt() of a rational that is no perfect square has an    *)
(* exact value and division by it is exact.  d = 0 marks the non-finite    *)
(* doubles: <<0,0,0,0>> is NaN, <<1,0,0,0>> is +inf, <<-1,0,0,0>> is -inf. *)
(* Rounding error and signed zeros are not modelled.  Sums and products    *)
(* cancel common factors before they multiply, to keep the integers small. *)
(***************************************************************************)
EXTENDS Integers, Sequences, FiniteSets, TLC

VARIABLES
    pc,                                  \* position of the running call
    in_spin, out_spin, norm, weight,     \* set_weights: arguments, local norm, weight[8]
    mem, mem0, dst, vop,                 \* vector functions: the arrays, the arrays at the call,
                                         \* the array written, the function called
    scat, qrot,                          \* set_scatvec: arguments, qrot[3]
    dir, Mvec, nuc, sld,                 \* mag_sld: (x,y,z), magnetisation, nuc, sld[8]
    shell, n, i, f, r, last_sld, reads,  \* fq_core_shell: arguments and locals
    bcc, Sq                              \* _sq_bcc: arguments, result

weightVars == <<in_spin, out_spin, norm, weight>>
vecVars == <<mem, mem0, dst, vop, scat, qrot>>
magVars == <<dir, Mvec, nuc, sld>>
shellVars == <<shell, n, i, f, r, last_sld, reads>>
bccVars == <<bcc, Sq>>

vars == <<pc, weightVars, vecVars, magVars, shellVars, bccVars>>

-----------------------------------------------------------------------------
(* Exact numbers *)

\* the value of a variable that belongs to a function that is not running
Idle == <<>>

WeightsIdle == in_spin = Idle /\ out_spin = Idle /\ norm = Idle /\ weight = Idle
VecIdle ==
    /\ mem = Idle /\ mem0 = Idle /\ dst = Idle /\ vop = Idle
    /\ scat = Idle /\ qrot = Idle
MagIdle == dir = Idle /\ Mvec = Idle /\ nuc = Idle /\ sld = Idle
ShellIdle ==
    /\ shell = Idle /\ n = Idle /\ i = Idle /\ f = Idle /\ r = Idle
    /\ last_sld = Idle /\ reads = Idle
BccIdle == bcc = Idle /\ Sq = Idle

NaN == <<0, 0, 0, 0>>
PosInf == <<1, 0, 0, 0>>
NegInf == <<-1, 0, 0, 0>>

IsFinite(a) == a[3] # 0
IsNaN(a) == a = NaN

AbsInt(k) == IF k < 0 THEN -k ELSE k

RECURSIVE GCD(_, _)
GCD(a, b) == IF b = 0 THEN a ELSE GCD(b, a % b)

\* floor(sqrt(k)) for an integer k >= 0
ISqrt(k) == CHOOSE s \in 0..k : s * s <= k /\ (s + 1) * (s + 1) > k

IsSquare(k) == k >= 0 /\ ISqrt(k) * ISqrt(k) = k

\* lowest terms, positive denominator, radicand 0 when there is no sqrt part
Norm(a) ==
    LET g == GCD(GCD(AbsInt(a[1]), AbsInt(a[2])), AbsInt(a[3]))
        s == IF a[3] < 0 THEN -g ELSE g
        p == a[1] \div s
        q == a[2] \div s
        d == a[3] \div s
    IN  <<p, q, d, IF q = 0 THEN 0 ELSE a[4]>>

\* the rational num/den (den # 0)
Rat(num, den) == Norm(<<num, 0, den, 0>>)

Zero == Rat(0, 1)
One == Rat(1, 1)
Two == Rat(2, 1)
Half == Rat(1, 2)

\* the radicand two operands share
Rad(a, b) == IF a[4] # 0 THEN a[4] ELSE b[4]

\* -1, 0 or 1: the sign of p + q*sqrt(n) for a finite number, of an infinity
Sign(a) ==
    LET p == a[1]
        q == a[2]
        sp == IF p > 0 THEN 1 ELSE IF p < 0 THEN -1 ELSE 0
        sq == IF q > 0 THEN 1 ELSE IF q < 0 THEN -1 ELSE 0
        dd == p * p - a[4] * q * q
    IN  IF sq = 0 THEN sp
        ELSE IF sp = 0 THEN sq
        ELSE IF sp = sq THEN sp
        ELSE IF dd > 0 THEN sp
        ELSE IF dd < 0 THEN sq
        ELSE 0

Neg(a) == <<-a[1], -a[2], a[3], a[4]>>

Add(a, b) ==
    IF IsNaN(a) \/ IsNaN(b) THEN NaN
    ELSE IF ~IsFinite(a) THEN (IF ~IsFinite(b) /\ a # b THEN NaN ELSE a)
    ELSE IF ~IsFinite(b) THEN b
    ELSE LET g == GCD(a[3], b[3])
             ka == b[3] \div g
             kb == a[3] \div g
         IN  Norm(<<a[1] * ka + b[1] * kb, a[2] * ka + b[2] * kb, a[3] * ka, Rad(a, b)>>)

Sub(a, b) == Add(a, Neg(b))

Mul(a, b) ==
    IF IsNaN(a) \/ IsNaN(b) THEN NaN
    ELSE IF ~IsFinite(a) \/ ~IsFinite(b) THEN
        (IF Sign(a) * Sign(b) = 0 THEN NaN
         ELSE IF Sign(a) * Sign(b) > 0 THEN PosInf ELSE NegInf)
    ELSE LET ga == GCD(GCD(AbsInt(a[1]), AbsInt(a[2])), b[3])
             gb == GCD(GCD(AbsInt(b[1]), AbsInt(b[2])), a[3])
             a1 == a[1] \div ga
             a2 == a[2] \div ga
             b1 == b[1] \div gb
             b2 == b[2] \div gb
         IN  Norm(<<a1 * b1 + Rad(a, b) * a2 * b2, a1 * b2 + a2 * b1,
                    (a[3] \div gb) * (b[3] \div ga), Rad(a, b)>>)

\* 1/a for a finite a # 0: d/p without a sqrt part, else
\* d*(p - q*sqrt(n)) / (p*p - n*q*q)
Inv(a) ==
    IF a[2] = 0 THEN Norm(<<a[3], 0, a[1], 0>>)
    ELSE Norm(<<a[3] * a[1], -(a[3] * a[2]),
                a[1] * a[1] - a[4] * a[2] * a[2], a[4]>>)

Div(a, b) ==
    IF IsNaN(a) \/ IsNaN(b) THEN NaN
    ELSE IF ~IsFinite(b) THEN (IF ~IsFinite(a) THEN NaN ELSE Zero)
    ELSE IF ~IsFinite(a) THEN (IF Sign(b) < 0 THEN Neg(a) ELSE a)
    ELSE IF Sign(b) = 0 THEN
        (IF Sign(a) = 0 THEN NaN ELSE IF Sign(a) > 0 THEN PosInf ELSE NegInf)
    ELSE Mul(a, Inv(b))

\* a < b and a > b as C compares doubles: false when either is NaN
Lt(a, b) == ~IsNaN(a) /\ ~IsNaN(b) /\ a # b /\ Sign(Sub(a, b)) < 0
Gt(a, b) == Lt(b, a)
Ge(a, b) == ~IsNaN(a) /\ ~IsNaN(b) /\ ~Lt(a, b)

\* sqrt of a rational p/d: exact when p and d are squares, else sqrt(p*d)/d
Sqrt(a) ==
    IF IsNaN(a) \/ Sign(a) < 0 THEN NaN
    ELSE IF ~IsFinite(a) THEN a
    ELSE IF IsSquare(a[1]) /\ IsSquare(a[3]) THEN Rat(ISqrt(a[1]), ISqrt(a[3]))
    ELSE <<0, 1, a[3], a[1] * a[3]>>

square(x) == Mul(x, x)
cube(x) == Mul(Mul(x, x), x)
clip(x, lo, hi) == IF Lt(x, lo) THEN lo ELSE IF Gt(x, hi) THEN hi ELSE x

\* (int)x for a finite rational x: truncation towards zero
ToInt(x) == IF x[1] >= 0 THEN x[1] \div x[3] ELSE -((-x[1]) \div x[3])

-----------------------------------------------------------------------------
(* set_weights *)

HalfDen == 2
SpinMax == 8

\* in_spin and out_spin range over the multiples of 1/(2*HalfDen) in
\* [-SpinMax/(2*HalfDen), SpinMax/(2*HalfDen)]: negative values, 0, 1/2, 1
\* and values above 1
SpinGrid == {Rat(k, 2 * HalfDen) : k \in (-SpinMax)..SpinMax}

\* the test of line 52 turned round: 1 - out_spin taken above 0.5
set_weights_norm_flipped(o) ==
    LET norm0 == o
        o1 == clip(Sqrt(square(o)), Zero, One)
    IN  IF Gt(o1, Half) THEN Sub(One, o1) ELSE norm0

\* the value of the local norm at the divisions
set_weights_norm(o) ==
    LET norm0 == o
        o1 == clip(Sqrt(square(o)), Zero, One)
    IN  IF Lt(o1, Half) THEN Sub(One, o1) ELSE norm0

\* a slip in the last weight: out_spin where 1 - out_spin belongs
set_weights_slip(in, out) ==
    LET nrm == set_weights_norm(out)
        is == clip(Sqrt(square(in)), Zero, One)
        os == clip(Sqrt(square(out)), Zero, One)
        w0 == Div(Mul(Sub(One, is), Sub(One, os)), nrm)
        w2 == Div(Mul(is, os), nrm)
        w4 == Div(Mul(Sub(One, is), os), nrm)
        w6 == Div(Mul(is, os), nrm)
    IN  <<w0, w0, w2, w2, w4, w4, w6, w6>>

set_weights(in, out) ==
    LET nrm == set_weights_norm(out)
        is == clip(Sqrt(square(in)), Zero, One)
        os == clip(Sqrt(square(out)), Zero, One)
        w0 == Div(Mul(Sub(One, is), Sub(One, os)), nrm)
        w2 == Div(Mul(is, os), nrm)
        w4 == Div(Mul(Sub(One, is), os), nrm)
        w6 == Div(Mul(is, Sub(One, os)), nrm)
    IN  <<w0, w0, w2, w2, w4, w4, w6, w6>>

InitWeights ==
    /\ pc = "call"
    /\ in_spin \in SpinGrid
    /\ out_spin \in SpinGrid
    /\ norm = Idle /\ weight = Idle
    /\ VecIdle /\ MagIdle /\ ShellIdle /\ BccIdle

CallSetWeights ==
    /\ pc = "call"
    /\ norm' = set_weights_norm(out_spin)
    /\ weight' = set_weights(in_spin, out_spin)
    /\ pc' = "done"
    /\ UNCHANGED <<in_spin, out_spin, vecVars, magVars, shellVars, bccVars>>

SpecWeights == InitWeights /\ [][CallSetWeights]_vars

Abs(a) == IF Sign(a) < 0 THEN Neg(a) ELSE a
In01(x) == Ge(x, Zero) /\ Ge(One, x)
PhysSum(w) == Add(Add(Add(w[1], w[3]), w[5]), w[7])
Clamp01(x) == clip(Abs(x), Zero, One)
NormOf(o) == IF Lt(o, Half) THEN Sub(One, o) ELSE o

\* C1 (as stated): after set_weights with in_spin and out_spin in [0,1], the
\* four real physical weights weight[0] + weight[2] + weight[4] + weight[6]
\* sum to one.
C1_SumIsOne ==
    (pc = "done" /\ In01(in_spin) /\ In01(out_spin)) => PhysSum(weight) = One

\* C1 (amended): after set_weights with in_spin and out_spin in [0,1], the four
\* real physical weights sum to 1/norm with norm = max(out_spin, 1 - out_spin);
\* the sum lies in [1,2] and is one exactly when out_spin is 0 or 1.
C1_SumIsInverseNorm ==
    (pc = "done" /\ In01(in_spin) /\ In01(out_spin)) =>
        /\ Mul(PhysSum(weight), NormOf(out_spin)) = One
        /\ Ge(PhysSum(weight), One) /\ Ge(Two, PhysSum(weight))
        /\ (PhysSum(weight) = One) <=> (out_spin \in {Zero, One})

C1_Witness ==
    /\ pc = "done" /\ In01(in_spin) /\ out_spin = Half
    /\ PhysSum(weight) = Two

\* C2: for every real in_spin and out_spin the eight weights are those of the
\* clamped inputs c(x) = clip(|x|, 0, 1), and the norm is taken from the
\* clamped out_spin: the sign of an input never changes the result.
C2_ClampedInputsEquivalent ==
    pc = "done" =>
        /\ norm = NormOf(Clamp01(out_spin))
        /\ weight = set_weights(Clamp01(in_spin), Clamp01(out_spin))

\* C9: set_weights never divides by zero: for every real in_spin and out_spin
\* the divisor norm has |norm| >= 0.5, every weight written is finite, and
\* out_spin = 0 goes through the branch norm = 1 - out_spin = 1.
C9_NormAwayFromZero ==
    pc = "done" =>
        /\ Ge(Abs(norm), Half)
        /\ \A k \in 1..8 : IsFinite(weight[k])
        /\ (out_spin = Zero => norm = One)

C9_Witness ==
    /\ pc = "done" /\ out_spin = Zero /\ norm = One
    /\ \A k \in 1..8 : IsFinite(weight[k])

-----------------------------------------------------------------------------
(* Vector algebra.  The functions take pointers: an array is a name, and the  *)
(* memory m maps each name to its three doubles, so that a result_vec that    *)
(* is the same array as an operand is expressed as it is in C.                *)

VecMax == 1

Coords == (-VecMax)..VecMax
IntVecs == {<<Rat(a, 1), Rat(b, 1), Rat(c, 1)>> : a \in Coords, b \in Coords, c \in Coords}
ZeroVec == <<Zero, Zero, Zero>>
Arrays == {"u", "v", "w"}

\* vector[0..2] are v[1..3]
SET_VEC(m, vector, v0, v1, v2) == [m EXCEPT ![vector] = <<v0, v1, v2>>]

SCALAR_VEC(vec1, vec2) ==
    Add(Add(Mul(vec1[1], vec2[1]), Mul(vec1[2], vec2[2])), Mul(vec1[3], vec2[3]))

\* one assignment of ORTH_VEC: result_vec[k] = vec1[k] - S(vec1,vec2)/S(vec2,vec2)*vec2[k],
\* the operands read from memory as it is when the assignment runs
OrthAssign(m, result_vec, vec1, vec2, k) ==
    [m EXCEPT ![result_vec][k] =
        Sub(m[vec1][k],
            Mul(Div(SCALAR_VEC(m[vec1], m[vec2]), SCALAR_VEC(m[vec2], m[vec2])),
                m[vec2][k]))]

\* the projection added instead of subtracted
ORTH_VEC_plus(m, result_vec, vec1, vec2) ==
    [m EXCEPT ![result_vec] =
        [k \in 1..3 |->
            Add(m[vec1][k],
                Mul(Div(SCALAR_VEC(m[vec1], m[vec2]), SCALAR_VEC(m[vec2], m[vec2])),
                    m[vec2][k]))]]

\* the three assignments in program order
ORTH_VEC(m, result_vec, vec1, vec2) ==
    LET m0 == OrthAssign(m, result_vec, vec1, vec2, 1)
        m1 == OrthAssign(m0, result_vec, vec1, vec2, 2)
    IN  OrthAssign(m1, result_vec, vec1, vec2, 3)

\* SCALE_VEC: vector[k] = a*vector[k], the three assignments in program order
SCALE_VEC(m, vector, a) ==
    LET m0 == [m EXCEPT ![vector][1] = Mul(a, m[vector][1])]
        m1 == [m0 EXCEPT ![vector][2] = Mul(a, m0[vector][2])]
    IN  [m1 EXCEPT ![vector][3] = Mul(a, m1[vector][3])]

\* ADD_VEC: result_vec[k] = vec1[k] + vec2[k], the three assignments in program order
ADD_VEC(m, result_vec, vec1, vec2) ==
    LET m0 == [m EXCEPT ![result_vec][1] = Add(m[vec1][1], m[vec2][1])]
        m1 == [m0 EXCEPT ![result_vec][2] = Add(m0[vec1][2], m0[vec2][2])]
    IN  [m1 EXCEPT ![result_vec][3] = Add(m1[vec1][3], m1[vec2][3])]

ScaleFactors == {Rat(-1, 1), Rat(1, 2), Rat(2, 1)}

\* vec1 is array "u", vec2 is array "v"; the array written (result_vec, or the
\* vector of SCALE_VEC) is any of the three
InitVec ==
    /\ pc = "call"
    /\ \E a \in IntVecs, b \in IntVecs : mem = [x \in Arrays |->
            IF x = "u" THEN a ELSE IF x = "v" THEN b ELSE ZeroVec]
    /\ mem0 = mem
    /\ dst \in Arrays
    /\ vop = Idle /\ scat = Idle /\ qrot = Idle
    /\ WeightsIdle /\ MagIdle /\ ShellIdle /\ BccIdle

CallOrthVec ==
    /\ pc = "call"
    /\ mem' = ORTH_VEC(mem, dst, "u", "v")
    /\ vop' = <<"ORTH_VEC">>
    /\ pc' = "done"
    /\ UNCHANGED <<mem0, dst, scat, qrot, weightVars, magVars, shellVars, bccVars>>

CallScaleVec ==
    /\ pc = "call"
    /\ \E a \in ScaleFactors :
        /\ mem' = SCALE_VEC(mem, dst, a)
        /\ vop' = <<"SCALE_VEC", a>>
    /\ pc' = "done"
    /\ UNCHANGED <<mem0, dst, scat, qrot, weightVars, magVars, shellVars, bccVars>>

CallAddVec ==
    /\ pc = "call"
    /\ mem' = ADD_VEC(mem, dst, "u", "v")
    /\ vop' = <<"ADD_VEC">>
    /\ pc' = "done"
    /\ UNCHANGED <<mem0, dst, scat, qrot, weightVars, magVars, shellVars, bccVars>>

NextVec == CallOrthVec \/ CallScaleVec \/ CallAddVec

SpecVec == InitVec /\ [][NextVec]_vars

\* v1 - (dot(v1,v2)/dot(v2,v2)) * v2, on values
Remainder(v1, v2) ==
    [k \in 1..3 |-> Sub(v1[k], Mul(Div(SCALAR_VEC(v1, v2), SCALAR_VEC(v2, v2)), v2[k]))]

\* C4: for every vec1 and every non-zero vec2, with result_vec an array
\* distinct from both, ORTH_VEC leaves in result_vec the vector
\* vec1 - (dot(vec1,vec2)/dot(vec2,vec2))*vec2, which is orthogonal to vec2
\* (SCALAR_VEC(result_vec, vec2) = 0), and leaves vec1 and vec2 unchanged.
C4_OrthVec ==
    (pc = "done" /\ vop = <<"ORTH_VEC">> /\ dst = "w" /\ mem0["v"] # ZeroVec) =>
        /\ mem["w"] = Remainder(mem0["u"], mem0["v"])
        /\ SCALAR_VEC(mem["w"], mem["v"]) = Zero
        /\ mem["u"] = mem0["u"] /\ mem["v"] = mem0["v"]

\* a case where the remainder is neither vec1 nor zero
C4_Witness ==
    /\ pc = "done" /\ vop = <<"ORTH_VEC">> /\ dst = "w" /\ mem0["v"] # ZeroVec
    /\ mem["w"] # ZeroVec /\ mem["w"] # mem["u"]
    /\ SCALAR_VEC(mem["w"], mem["v"]) = Zero


-----------------------------------------------------------------------------
(* set_scatvec.  alpha and beta are angles in degrees; the model takes them  *)
(* on the multiples of 30, where sin and cos have exact values in the        *)
(* rationals extended by sqrt(3).                                            *)

AngleMax == 6

Angles == {30 * k : k \in (-AngleMax)..AngleMax}
ScatQ == {Rat(1, 2), Rat(1, 1), Rat(2, 1)}
\* <<cos_theta, sin_theta>> of the detector angle
ScatTheta == { <<One, Zero>>, <<Zero, One>>, <<Rat(3, 5), Rat(4, 5)>>,
               <<Rat(-4, 5), Rat(3, 5)>> }

\* sin at 0, 30, .., 330 degrees
SinTable ==
    << Zero, Half, <<0, 1, 2, 3>>, One, <<0, 1, 2, 3>>, Half,
       Zero, Rat(-1, 2), <<0, -1, 2, 3>>, Rat(-1, 1), <<0, -1, 2, 3>>, Rat(-1, 2) >>

\* lines 123-124: SINCOS(deg*M_PI/180, s, c) gives <<s, c>>
SINCOS(deg) ==
    << SinTable[((deg \div 30) % 12) + 1], SinTable[(((deg \div 30) + 3) % 12) + 1] >>

\* lines 129-133: the three components of qrot
set_scatvec(q, cos_theta, sin_theta, alpha, beta) ==
    LET sin_alpha == SINCOS(alpha)[1]
        cos_alpha == SINCOS(alpha)[2]
        sin_beta == SINCOS(beta)[1]
        cos_beta == SINCOS(beta)[2]
    IN  << Mul(q, Mul(cos_alpha, cos_theta)),
           Mul(q, Add(Mul(Mul(cos_theta, sin_alpha), sin_beta),
                      Mul(cos_beta, sin_theta))),
           Mul(q, Add(Mul(Mul(Neg(cos_beta), cos_theta), sin_alpha),
                      Mul(sin_beta, sin_theta))) >>

InitScat ==
    /\ pc = "call"
    /\ \E t \in ScatTheta :
          scat \in [q : ScatQ, cos_theta : {t[1]}, sin_theta : {t[2]},
                    alpha : Angles, beta : Angles]
    /\ qrot = Idle
    /\ mem = Idle /\ mem0 = Idle /\ dst = Idle /\ vop = Idle
    /\ WeightsIdle /\ MagIdle /\ ShellIdle /\ BccIdle

CallSetScatvec ==
    /\ pc = "call"
    /\ qrot' = set_scatvec(scat.q, scat.cos_theta, scat.sin_theta, scat.alpha, scat.beta)
    /\ pc' = "done"
    /\ UNCHANGED <<scat, mem, mem0, dst, vop, weightVars, magVars, shellVars, bccVars>>

SpecScat == InitScat /\ [][CallSetScatvec]_vars

\* the rotation keeps the length of q*(cos_theta, sin_theta, 0)
ScatLengthKept ==
    pc = "done" =>
        Add(Add(square(qrot[1]), square(qrot[2])), square(qrot[3]))
            = Mul(square(scat.q), Add(square(scat.cos_theta), square(scat.sin_theta)))

\* with alpha = beta = 0 the vector is q*(cos_theta, sin_theta, 0)
ScatIdentity ==
    (pc = "done" /\ scat.alpha = 0 /\ scat.beta = 0) =>
        qrot = <<Mul(scat.q, scat.cos_theta), Mul(scat.q, scat.sin_theta), Zero>>

-----------------------------------------------------------------------------
(* mag_sld *)

MagVals == {-1, 0, 2}
RealParts == {<<Rat(a, 1), Rat(b, 1), Rat(c, 1)>> : a \in MagVals, b \in MagVals, c \in MagVals}
ImagParts == {ZeroVec, <<Rat(1, 1), Rat(-1, 1), Rat(2, 1)>>, <<Zero, Rat(1, 2), Zero>>}
NucVals == {Zero, Rat(3, 1)}

\* the local arrays before they are written
Locals == {"vector", "Mvectorreal", "Mvectorimag", "Pvector", "perpy", "perpx",
           "Mperpreal", "Mperpimag"}
Unset == [a \in Locals |-> <<NaN, NaN, NaN>>]

\* lines 156-170: the local arrays when the sld[] assignments start
mag_perp(x, y, z, mxreal, mximag, myreal, myimag, mzreal, mzimag) ==
    LET q == Sqrt(Add(Add(Mul(x, x), Mul(y, y)), Mul(z, z)))
        m1 == SET_VEC(Unset, "vector", Div(x, q), Div(y, q), Div(z, q))
        m2 == SET_VEC(m1, "Mvectorreal", mxreal, myreal, mzreal)
        m3 == SET_VEC(m2, "Mvectorimag", mximag, myimag, mzimag)
        m4 == SET_VEC(m3, "Pvector", Zero, Zero, One)
        m5 == SET_VEC(m4, "perpy", Zero, One, Zero)
        m6 == SET_VEC(m5, "perpx", One, Zero, Zero)
        m7 == ORTH_VEC(m6, "Mperpreal", "Mvectorreal", "vector")
    IN  ORTH_VEC(m7, "Mperpimag", "Mvectorimag", "vector")

\* dd.imag and uu.imag with their signs exchanged, du.imag and ud.imag exchanged
mag_sld_slots_permuted(nc, m) ==
    << Sub(nc, SCALAR_VEC(m["Pvector"], m["Mperpreal"])),
       Neg(SCALAR_VEC(m["Pvector"], m["Mperpimag"])),
       Add(nc, SCALAR_VEC(m["Pvector"], m["Mperpreal"])),
       SCALAR_VEC(m["Pvector"], m["Mperpimag"]),
       Add(SCALAR_VEC(m["perpy"], m["Mperpreal"]), SCALAR_VEC(m["perpx"], m["Mperpimag"])),
       Add(SCALAR_VEC(m["perpy"], m["Mperpimag"]), SCALAR_VEC(m["perpx"], m["Mperpreal"])),
       Sub(SCALAR_VEC(m["perpy"], m["Mperpreal"]), SCALAR_VEC(m["perpx"], m["Mperpimag"])),
       Sub(SCALAR_VEC(m["perpy"], m["Mperpimag"]), SCALAR_VEC(m["perpx"], m["Mperpreal"])) >>

\* nuc added to the spin-flip channel du.real as well
mag_sld_slots_nuc_in_du(nc, m) ==
    << Sub(nc, SCALAR_VEC(m["Pvector"], m["Mperpreal"])),
       SCALAR_VEC(m["Pvector"], m["Mperpimag"]),
       Add(nc, SCALAR_VEC(m["Pvector"], m["Mperpreal"])),
       Neg(SCALAR_VEC(m["Pvector"], m["Mperpimag"])),
       Add(nc, Add(SCALAR_VEC(m["perpy"], m["Mperpreal"]),
                   SCALAR_VEC(m["perpx"], m["Mperpimag"]))),
       Sub(SCALAR_VEC(m["perpy"], m["Mperpimag"]), SCALAR_VEC(m["perpx"], m["Mperpreal"])),
       Sub(SCALAR_VEC(m["perpy"], m["Mperpreal"]), SCALAR_VEC(m["perpx"], m["Mperpimag"])),
       Add(SCALAR_VEC(m["perpy"], m["Mperpimag"]), SCALAR_VEC(m["perpx"], m["Mperpreal"])) >>

\* lines 173-181: sld[0..7] are the tuple's [1..8]
mag_sld_slots(nc, m) ==
    << Sub(nc, SCALAR_VEC(m["Pvector"], m["Mperpreal"])),
       SCALAR_VEC(m["Pvector"], m["Mperpimag"]),
       Add(nc, SCALAR_VEC(m["Pvector"], m["Mperpreal"])),
       Neg(SCALAR_VEC(m["Pvector"], m["Mperpimag"])),
       Add(SCALAR_VEC(m["perpy"], m["Mperpreal"]), SCALAR_VEC(m["perpx"], m["Mperpimag"])),
       Sub(SCALAR_VEC(m["perpy"], m["Mperpimag"]), SCALAR_VEC(m["perpx"], m["Mperpreal"])),
       Sub(SCALAR_VEC(m["perpy"], m["Mperpreal"]), SCALAR_VEC(m["perpx"], m["Mperpimag"])),
       Add(SCALAR_VEC(m["perpy"], m["Mperpimag"]), SCALAR_VEC(m["perpx"], m["Mperpreal"])) >>

mag_sld(x, y, z, mxreal, mximag, myreal, myimag, mzreal, mzimag, nc) ==
    mag_sld_slots(nc, mag_perp(x, y, z, mxreal, mximag, myreal, myimag, mzreal, mzimag))

\* Mvec is <<mxreal, mximag, myreal, myimag, mzreal, mzimag>>
InitMag ==
    /\ pc = "call"
    /\ dir \in IntVecs
    /\ \E re \in RealParts, im \in ImagParts :
            Mvec = <<re[1], im[1], re[2], im[2], re[3], im[3]>>
    /\ nuc \in NucVals
    /\ sld = Idle
    /\ WeightsIdle /\ VecIdle /\ ShellIdle /\ BccIdle

CallMagSld ==
    /\ pc = "call"
    /\ sld' = mag_sld(dir[1], dir[2], dir[3], Mvec[1], Mvec[2], Mvec[3], Mvec[4],
                      Mvec[5], Mvec[6], nuc)
    /\ pc' = "done"
    /\ UNCHANGED <<dir, Mvec, nuc, weightVars, vecVars, shellVars, bccVars>>

SpecMag == InitMag /\ [][CallMagSld]_vars

Mreal == <<Mvec[1], Mvec[3], Mvec[5]>>
Mimag == <<Mvec[2], Mvec[4], Mvec[6]>>
Twice(a) == Mul(Two, a)

\* C3: for every direction (x,y,z) of non-zero magnitude and every nuc, with
\* all six magnetisation components zero, sld[0] = sld[2] = nuc and
\* sld[1], sld[3], sld[4], sld[5], sld[6], sld[7] are all 0.
C3_ZeroMagnetisation ==
    (pc = "done" /\ dir # ZeroVec /\ Mreal = ZeroVec /\ Mimag = ZeroVec) =>
        sld = <<nuc, Zero, nuc, Zero, Zero, Zero, Zero, Zero>>

\* a direction whose magnitude sqrt(3) is irrational, nuc = 3
C3_Witness ==
    /\ pc = "done" /\ Mreal = ZeroVec /\ Mimag = ZeroVec
    /\ dir = <<One, One, One>> /\ nuc = Rat(3, 1)
    /\ sld[1] = nuc /\ sld[3] = nuc /\ sld[5] = Zero

\* C10: for every non-zero direction, every complex magnetisation and every
\* nuc, with Mperp the part of M perpendicular to (x,y,z):
\* sld[0] + sld[2] = 2*nuc, sld[1] + sld[3] = 0, sld[2] - sld[0] = 2*Mperp_real.z,
\* sld[4] + sld[6] = 2*Mperp_real.y, sld[5] + sld[7] = 2*Mperp_imag.y,
\* sld[4] - sld[6] = 2*Mperp_imag.x, sld[7] - sld[5] = 2*Mperp_real.x.
C10_ChannelRelations ==
    (pc = "done" /\ dir # ZeroVec) =>
        LET pr == Remainder(Mreal, dir)
            pim == Remainder(Mimag, dir)
        IN  /\ Add(sld[1], sld[3]) = Twice(nuc)
            /\ Add(sld[2], sld[4]) = Zero
            /\ Sub(sld[3], sld[1]) = Twice(pr[3])
            /\ Add(sld[5], sld[7]) = Twice(pr[2])
            /\ Add(sld[6], sld[8]) = Twice(pim[2])
            /\ Sub(sld[5], sld[7]) = Twice(pim[1])
            /\ Sub(sld[8], sld[6]) = Twice(pr[1])

\* a direction of irrational magnitude, with every projection non-zero
C10_Witness ==
    /\ pc = "done" /\ dir = <<One, One, Zero>>
    /\ sld[2] # Zero /\ sld[3] # sld[1]
    /\ sld[5] # sld[7] /\ sld[6] # sld[8]
    /\ Add(sld[5], sld[7]) # Zero /\ Add(sld[6], sld[8]) # Zero

-----------------------------------------------------------------------------
(* fq_core_shell.  sas_3j1x_x and the constant M_4PI_3 are supplied from      *)
(* outside this file, so the accumulator f is kept as the sequence of the     *)
(* terms added to it, in the order they are added: the term                   *)
(* [coef |-> c, x |-> a] stands for M_4PI_3 * c * sas_3j1x_x(a), and f for    *)
(* the sum of its terms.                                                      *)

MaxShells == 2

QVals == {Rat(1, 2), Rat(2, 1)}
RadiusVals == {Rat(1, 1), Rat(3, 2)}
CoreVals == {Rat(1, 1)}
SolventVals == {Zero, Rat(2, 1)}
SldVals == {Rat(1, 1), Rat(3, 1)}
ThicknessVals == {Rat(1, 2), Rat(2, 1)}
\* shell counts from -2 to MaxShells + 1/4 in steps of 1/4
ShellCounts == {Rat(k, 4) : k \in (-8)..(4 * MaxShells + 1)}

\* line 4 without the + 0.5
shell_n_truncated(fp_n) == ToInt(fp_n)

\* line 4: (int)(fp_n + 0.5)
shell_n(fp_n) == ToInt(Add(fp_n, Half))

\* the term of lines 10 and 14 at radius rr, between the layers of SLD prev and next
shell_term(qq, rr, next, prev) ==
    [coef |-> Mul(cube(rr), Sub(next, prev)), x |-> Mul(qq, rr)]

InitShell ==
    /\ pc = "call"
    /\ shell \in [q : QVals, sld_core : CoreVals, radius : RadiusVals,
                  sld_solvent : SolventVals, fp_n : ShellCounts,
                  sld : [1..MaxShells -> SldVals],
                  thickness : [1..MaxShells -> ThicknessVals]]
    /\ n = Idle /\ i = Idle /\ f = Idle /\ r = Idle /\ last_sld = Idle
    /\ reads = {}
    /\ WeightsIdle /\ VecIdle /\ MagIdle /\ BccIdle

\* lines 4-8, and i = 0 of line 9
ShellEnter ==
    /\ pc = "call"
    /\ n' = shell_n(shell.fp_n)
    /\ r' = shell.radius
    /\ last_sld' = shell.sld_core
    /\ f' = <<>>
    /\ i' = 0
    /\ pc' = "loop"
    /\ UNCHANGED <<shell, reads, weightVars, vecVars, magVars, bccVars>>

\* lines 9-13: one turn of the loop; sld[i] and thickness[i] of C are [i + 1] here
ShellIter ==
    /\ pc = "loop"
    /\ i < n
    /\ f' = Append(f, shell_term(shell.q, r, shell.sld[i + 1], last_sld))
    /\ last_sld' = shell.sld[i + 1]
    /\ r' = Add(r, shell.thickness[i + 1])
    /\ reads' = reads \cup {<<"sld", i>>, <<"thickness", i>>}
    /\ i' = i + 1
    /\ UNCHANGED <<pc, shell, n, weightVars, vecVars, magVars, bccVars>>

\* lines 14-15: the solvent term, and return f
ShellExit ==
    /\ pc = "loop"
    /\ ~(i < n)
    /\ f' = Append(f, shell_term(shell.q, r, shell.sld_solvent, last_sld))
    /\ pc' = "done"
    /\ UNCHANGED <<shell, n, i, r, last_sld, reads, weightVars, vecVars, magVars, bccVars>>

NextShell == ShellEnter \/ ShellIter \/ ShellExit

SpecShell == InitShell /\ [][NextShell]_vars

\* floor(x + 1/2) of a rational x = p/d, on integers
RoundHalfUp(x) ==
    LET a == 2 * x[1] + x[3]
        b == 2 * x[3]
    IN  IF a >= 0 THEN a \div b ELSE -((b - 1 - a) \div b)

RECURSIVE OuterRadius(_, _)
\* r_k = radius + thickness[0] + ... + thickness[k-1]
OuterRadius(sh, k) ==
    IF k = 0 THEN sh.radius ELSE Add(OuterRadius(sh, k - 1), sh.thickness[k])

\* s_k: s_(-1) = sld_core, s_k = sld[k] for k < cnt, s_cnt = sld_solvent
LayerSld(sh, cnt, k) ==
    IF k < 0 THEN sh.sld_core ELSE IF k < cnt THEN sh.sld[k + 1] ELSE sh.sld_solvent

\* the cnt + 1 interface terms r_k^3 * (s_k - s_(k-1)) * sas_3j1x_x(q * r_k)
InterfaceTerms(sh, cnt) ==
    [k \in 1..(cnt + 1) |->
        [coef |-> Mul(cube(OuterRadius(sh, k - 1)),
                      Sub(LayerSld(sh, cnt, k - 1), LayerSld(sh, cnt, k - 2))),
         x |-> Mul(sh.q, OuterRadius(sh, k - 1))]]

\* C5: for fp_n >= 0, with n = floor(fp_n + 0.5): the loop runs exactly n
\* times, only sld[k] and thickness[k] with 0 <= k < n are read, and the value
\* returned is the sum of the n + 1 interface terms; for n = 0 it is the
\* uniform-sphere term radius^3 * (sld_solvent - sld_core) * sas_3j1x_x(q*radius).
C5_CoreShellSum ==
    (pc # "call" /\ Ge(shell.fp_n, Zero)) =>
        /\ n = RoundHalfUp(shell.fp_n)
        /\ \A rd \in reads : rd[2] >= 0 /\ rd[2] < n
        /\ pc = "done" =>
            /\ i = n
            /\ reads = {<<"sld", k>> : k \in 0..(n - 1)}
                         \cup {<<"thickness", k>> : k \in 0..(n - 1)}
            /\ f = InterfaceTerms(shell, n)
            /\ n = 0 => f = << [coef |-> Mul(cube(shell.radius),
                                             Sub(shell.sld_solvent, shell.sld_core)),
                                x |-> Mul(shell.q, shell.radius)] >>

\* fp_n = 7/4 rounds to two shells: three terms, four array reads
C5_Witness ==
    /\ pc = "done" /\ shell.fp_n = Rat(7, 4)
    /\ n = 2 /\ i = 2 /\ Len(f) = 3 /\ Cardinality(reads) = 4
    /\ shell.sld[1] # shell.sld[2]

-----------------------------------------------------------------------------
(* _sq_bcc.  exp, expm1, cos, sinh and cosh are libm's.  At the argument 0  *)
(* their values are exact (1, 0, 1, 0, 1).  At any other rational argument  *)
(* the value is transcendental, so the call stays in the result as a leaf   *)
(* of an expression: Sq is the expression the function evaluates, with the  *)
(* arguments of the libm calls computed and every operation between two     *)
(* known numbers carried out.  An expression is                             *)
(*     <<"val", x>>                      the number x                       *)
(*     <<"exp", x>>, <<"expm1", x>>, <<"cos", x>>, <<"sinh", x>>,           *)
(*     <<"cosh", x>>                     a libm call at the number x # 0    *)
(*     <<"neg", e>>, <<"add", e, g>>, <<"sub", e, g>>, <<"mul", e, g>>,     *)
(*     <<"div", e, g>>                   the operation on expressions       *)
(* Eval gives the value of an expression once the libm calls have values.   *)

QMax == 2

\* qa ranges over -QMax..QMax, qb and qc over -1..1
QCoords == {Rat(k, 1) : k \in (-QMax)..QMax}
QSide == {Rat(-1, 1), Zero, Rat(1, 1)}
DnnVals == {Rat(1, 1), Rat(2, 1)}
DFactorVals == {Zero, Rat(1, 2), Rat(1, 1)}

Val(x) == <<"val", x>>
IsVal(e) == e[1] = "val"

ENeg(e) == IF IsVal(e) THEN Val(Neg(e[2])) ELSE <<"neg", e>>
EAdd(e, g) == IF IsVal(e) /\ IsVal(g) THEN Val(Add(e[2], g[2])) ELSE <<"add", e, g>>
ESub(e, g) == IF IsVal(e) /\ IsVal(g) THEN Val(Sub(e[2], g[2])) ELSE <<"sub", e, g>>
EMul(e, g) == IF IsVal(e) /\ IsVal(g) THEN Val(Mul(e[2], g[2])) ELSE <<"mul", e, g>>
EDiv(e, g) == IF IsVal(e) /\ IsVal(g) THEN Val(Div(e[2], g[2])) ELSE <<"div", e, g>>
ECube(e) == EMul(EMul(e, e), e)

\* the libm calls at the number x
exp(x) == IF x = Zero THEN Val(One) ELSE <<"exp", x>>
expm1(x) == IF x = Zero THEN Val(Zero) ELSE <<"expm1", x>>
cos(x) == IF x = Zero THEN Val(One) ELSE <<"cos", x>>
sinh(x) == IF x = Zero THEN Val(Zero) ELSE <<"sinh", x>>
cosh(x) == IF x = Zero THEN Val(One) ELSE <<"cosh", x>>

\* lines 6-8: <<a1, a2, a3>>
sq_a(qa, qb, qc) ==
    << Add(Sub(qa, qc), qb), Sub(Add(qa, qc), qb), Add(Add(Neg(qa), qc), qb) >>

\* line 10
sq_half_dnn(dnn) == Mul(Half, dnn)

\* line 11
sq_arg(qa, qb, qc, dnn, d_factor) ==
    LET a == sq_a(qa, qb, qc)
    IN  Mul(Mul(Half, square(Mul(sq_half_dnn(dnn), d_factor))),
            Add(Add(Mul(a[1], a[1]), Mul(a[2], a[2])), Mul(a[3], a[3])))

\* the numerator without its leading minus sign
sq_num_unsigned(arg) == ECube(expm1(Mul(Rat(-2, 1), arg)))

\* line 21: -cube(expm1(-2.0*arg))
sq_num(arg) == ENeg(ECube(expm1(Mul(Rat(-2, 1), arg))))

\* the factor with cos(xk) where 2 cos(xk) belongs
sq_den_factor_one_cos(arg, half_dnn, ak) ==
    EAdd(EMul(ESub(exp(Neg(arg)), cos(Mul(half_dnn, ak))), exp(Neg(arg))), Val(One))

\* lines 22-24: (exp_arg - 2.0*cos(half_dnn*ak))*exp_arg + 1.0
sq_den_factor(arg, half_dnn, ak) ==
    EAdd(EMul(ESub(exp(Neg(arg)), EMul(Val(Two), cos(Mul(half_dnn, ak)))),
              exp(Neg(arg))),
         Val(One))

\* lines 22-24: the product of the three factors
sq_den(qa, qb, qc, dnn, d_factor) ==
    LET a == sq_a(qa, qb, qc)
        h == sq_half_dnn(dnn)
        arg == sq_arg(qa, qb, qc, dnn, d_factor)
    IN  EMul(EMul(sq_den_factor(arg, h, a[1]), sq_den_factor(arg, h, a[2])),
             sq_den_factor(arg, h, a[3]))

\* the compiled branch (#if 1)
sq_bcc(qa, qb, qc, dnn, d_factor) ==
    EDiv(sq_num(sq_arg(qa, qb, qc, dnn, d_factor)), sq_den(qa, qb, qc, dnn, d_factor))

\* the alternate branch (#else), lines 27-31
sq_bcc_alt(qa, qb, qc, dnn, d_factor) ==
    LET a == sq_a(qa, qb, qc)
        h == sq_half_dnn(dnn)
        arg == sq_arg(qa, qb, qc, dnn, d_factor)
        sinh_qd == sinh(arg)
        cosh_qd == cosh(arg)
    IN  EMul(EDiv(EMul(EDiv(sinh_qd, ESub(cosh_qd, cos(Mul(h, a[1])))), sinh_qd),
                  ESub(cosh_qd, cos(Mul(h, a[2])))),
             EDiv(sinh_qd, ESub(cosh_qd, cos(Mul(h, a[3])))))

InitBcc ==
    /\ pc = "call"
    /\ bcc \in [qa : QCoords, qb : QSide, qc : QSide, dnn : DnnVals,
                d_factor : DFactorVals]
    /\ Sq = Idle
    /\ WeightsIdle /\ VecIdle /\ MagIdle /\ ShellIdle

\* lines 6-34: Sq is computed and returned
CallSqBcc ==
    /\ pc = "call"
    /\ Sq' = sq_bcc(bcc.qa, bcc.qb, bcc.qc, bcc.dnn, bcc.d_factor)
    /\ pc' = "done"
    /\ UNCHANGED <<bcc, weightVars, vecVars, magVars, shellVars>>

SpecBcc == InitBcc /\ [][CallSqBcc]_vars

(* The values libm can give to the calls of one evaluation.  lib.E is       *)
(* exp(-arg), lib.X is expm1(-2*arg), lib.c[x] is cos at |argument| x (cos  *)
(* is even, and equal arguments get equal values).  sinh(arg) and cosh(arg) *)
(* follow from E: (1/E - E)/2 and (1/E + E)/2.                              *)
RECURSIVE Eval(_, _)
Eval(e, lib) ==
    IF e[1] = "val" THEN e[2]
    ELSE IF e[1] = "exp" THEN lib.E
    ELSE IF e[1] = "expm1" THEN lib.X
    ELSE IF e[1] = "cos" THEN lib.c[Abs(e[2])]
    ELSE IF e[1] = "sinh" THEN Div(Sub(Div(One, lib.E), lib.E), Two)
    ELSE IF e[1] = "cosh" THEN Div(Add(Div(One, lib.E), lib.E), Two)
    ELSE IF e[1] = "neg" THEN Neg(Eval(e[2], lib))
    ELSE IF e[1] = "add" THEN Add(Eval(e[2], lib), Eval(e[3], lib))
    ELSE IF e[1] = "sub" THEN Sub(Eval(e[2], lib), Eval(e[3], lib))
    ELSE IF e[1] = "mul" THEN Mul(Eval(e[2], lib), Eval(e[3], lib))
    ELSE Div(Eval(e[2], lib), Eval(e[3], lib))

BccArg == sq_arg(bcc.qa, bcc.qb, bcc.qc, bcc.dnn, bcc.d_factor)
BccA == sq_a(bcc.qa, bcc.qb, bcc.qc)
BccCosArgs == {Abs(Mul(sq_half_dnn(bcc.dnn), BccA[k])) : k \in 1..3} \ {Zero}
BccNum == sq_num(BccArg)
BccDen == sq_den(bcc.qa, bcc.qb, bcc.qc, bcc.dnn, bcc.d_factor)
BccFactor(k) == sq_den_factor(BccArg, sq_half_dnn(bcc.dnn), BccA[k])
BccAlt == sq_bcc_alt(bcc.qa, bcc.qb, bcc.qc, bcc.dnn, bcc.d_factor)
AtOrigin == bcc.qa = Zero /\ bcc.qb = Zero /\ bcc.qc = Zero

\* sample values of exp(-arg) for arg > 0: inside (0,1), and the two ends a
\* double reaches (0 by underflow, 1 by rounding)
ExpVals == {Zero, Rat(1, 4), Rat(3, 4), One}
\* sample values of expm1(-2*arg) for arg > 0, in [-1,0), beside E^2 - 1
Expm1Vals == {Rat(-1, 1), Rat(-1, 2), Rat(-1, 8)}
CosVals == {Rat(-1, 1), Zero, Rat(1, 2), One}

\* every assignment of sample values to the libm calls of the current call
LibmValues ==
    IF BccArg = Zero
    THEN [E : {One}, X : {Zero}, c : [BccCosArgs -> CosVals]]
    ELSE { [E |-> e, X |-> x, c |-> t] :
             e \in ExpVals, x \in Expm1Vals, t \in [BccCosArgs -> CosVals] }

\* the assignments in which exp is inside (0,1) and expm1(-2*arg) is
\* exp(-arg)^2 - 1
ExactLibmValues ==
    { [E |-> e, X |-> Sub(square(e), One), c |-> t] :
        e \in ExpVals \ {Zero, One}, t \in [BccCosArgs -> CosVals] }

\* C6: for all finite qa, qb, qc, dnn and d_factor with a non-zero denominator
\* the structure factor returned is non-negative: with E = exp(-arg) in [0,1],
\* expm1(-2*arg) in [-1,0] and c_k = cos(dnn/2*a_k) in [-1,1], the numerator is
\* >= 0 and each denominator factor (E - 2*c_k)*E + 1 is >= 0.
C6_SqNonNegative ==
    pc = "done" =>
        \A lib \in LibmValues :
            /\ Sign(Eval(BccNum, lib)) >= 0
            /\ \A k \in 1..3 : Sign(Eval(BccFactor(k), lib)) >= 0
            /\ Eval(BccDen, lib) # Zero =>
                    (IsFinite(Eval(Sq, lib)) /\ Sign(Eval(Sq, lib)) >= 0)

\* a positive value away from a lattice peak, with a negative cosine
C6_Witness ==
    /\ pc = "done" /\ Gt(BccArg, Zero)
    /\ \E lib \in LibmValues :
        /\ Eval(BccDen, lib) # Zero /\ Sign(Eval(Sq, lib)) > 0
        /\ \E x \in BccCosArgs : Sign(lib.c[x]) < 0

\* C7: for every arg > 0 and every a1, a2, a3, with E = exp(-arg),
\* sinh(arg) = (1/E - E)/2 and cosh(arg) = (1/E + E)/2, the compiled form
\* -(E^2 - 1)^3 / prod_k[(E - 2*cos(dnn/2*a_k))*E + 1] and the alternate form
\* prod_k[sinh(arg) / (cosh(arg) - cos(dnn/2*a_k))] have the same value.
C7_FormsAgree ==
    (pc = "done" /\ Gt(BccArg, Zero)) =>
        \A lib \in ExactLibmValues :
            /\ IsFinite(Eval(Sq, lib))
            /\ Eval(Sq, lib) = Eval(BccAlt, lib)

\* two different cosines beside cos(0), and a value that is neither 0 nor 1
C7_Witness ==
    /\ pc = "done" /\ Gt(BccArg, Zero)
    /\ \E lib \in ExactLibmValues :
        /\ Cardinality({Eval(cos(Mul(sq_half_dnn(bcc.dnn), BccA[k])), lib) : k \in 1..3}) = 3
        /\ Eval(Sq, lib) = Eval(BccAlt, lib)
        /\ Eval(Sq, lib) # Zero /\ Eval(Sq, lib) # One

\* C8: for every finite dnn and every d_factor > 0, _sq_bcc(0, 0, 0, dnn,
\* d_factor) has a non-zero denominator and returns a finite value, not the
\* result of a 0/0 division.
C8_OriginWellDefined ==
    (pc = "done" /\ AtOrigin /\ Gt(bcc.d_factor, Zero)) =>
        \A lib \in LibmValues :
            (Eval(BccDen, lib) # Zero /\ IsFinite(Eval(Sq, lib)))

====
